---------------------------- MODULE Spec2Model ----------------------------
(***************************************************************************)
(* A model of registration_checker.py: the Voter entry (construction from  *)
(* a comma separated record, hashing, serialisation, request arguments),   *)
(* the bounded fan-out RegistrationAPIExecutor.api_multi_call with its     *)
(* per-request retry loop _api_call, and the month-by-month search         *)
(* get_voters_with_absentee_ballots driven by RegistrationChecker.         *)
(*                                                                         *)
(* Python values are modelled as follows.                                  *)
(*   str        a sequence of one-character strings                        *)
(*   int        an integer                                                 *)
(*   Optional   a tagged record, see None / PyInt / PyStr                  *)
(*   object     an index into heap (object identity is the index)          *)
(*   set        a set of heap indices, with membership decided the way     *)
(*              Python decides it: equal hash, then identity or __eq__     *)
(***************************************************************************)
EXTENDS Integers, Sequences, FiniteSets, TLC

(***************************************************************************)
(* Bounds of the model.                                                    *)
(***************************************************************************)
\* Longest list of input rows handed to the search.
MaxVoters == 2
\* Largest number of fields of a malformed record that is tried.
MaxFields == 6
\* Largest number of request descriptors handed to one fan-out.
MaxRequests == 3
\* Size of the admission gate.  The source builds asyncio.Semaphore(50)
\* (line 64); the model scales the gate down so that a fan-out of
\* MaxRequests descriptors can exceed it.
SemSize == 2

(***************************************************************************)
(* Program constants.                                                      *)
(***************************************************************************)
\* range(5) in _api_call: attempts per request.
MaxAttempts == 5
\* range(1, 13) in get_voters_with_absentee_ballots: the candidate months.
FirstMonth == 1
LastMonth == 12

(***************************************************************************)
(* Strings.                                                                *)
(***************************************************************************)
Comma == ","
Unknown == <<"U", "n", "k", "n", "o", "w", "n">>
DigitChars == <<"0", "1", "2", "3", "4", "5", "6", "7", "8", "9">>

IsDigit(c) == \E d \in 1..10 : DigitChars[d] = c
DigitVal(c) == (CHOOSE d \in 1..10 : DigitChars[d] = c) - 1

\* str.split(','): the fields between the commas; always at least one field.
RECURSIVE SplitFrom(_, _, _)
SplitFrom(s, i, cur) ==
    IF i > Len(s) THEN <<cur>>
    ELSE IF s[i] = Comma THEN <<cur>> \o SplitFrom(s, i + 1, <<>>)
    ELSE SplitFrom(s, i + 1, Append(cur, s[i]))
Split(s) == SplitFrom(s, 1, <<>>)

\* sep.join(parts)
RECURSIVE Join(_, _)
Join(parts, sep) ==
    IF Len(parts) = 0 THEN <<>>
    ELSE IF Len(parts) = 1 THEN parts[1]
    ELSE parts[1] \o sep \o Join(Tail(parts), sep)

\* str.strip() as int() applies it (the model's alphabet has " " only).
RECURSIVE LStrip(_)
LStrip(s) == IF s # <<>> /\ Head(s) = " " THEN LStrip(Tail(s)) ELSE s
RECURSIVE RStrip(_)
RStrip(s) ==
    IF s # <<>> /\ s[Len(s)] = " " THEN RStrip(SubSeq(s, 1, Len(s) - 1)) ELSE s
Strip(s) == RStrip(LStrip(s))

\* int(s) on a str: optional surrounding blanks, optional sign, digits.
\* (Python also accepts "_" between digits; no input of the model has one.)
Unsigned(s) == LET t == Strip(s) IN
    IF t # <<>> /\ Head(t) \in {"+", "-"} THEN Tail(t) ELSE t
IsIntLiteral(s) ==
    LET u == Unsigned(s) IN u # <<>> /\ \A i \in 1..Len(u) : IsDigit(u[i])
RECURSIVE DigitsVal(_)
DigitsVal(u) ==
    IF u = <<>> THEN 0
    ELSE 10 * DigitsVal(SubSeq(u, 1, Len(u) - 1)) + DigitVal(u[Len(u)])
IntOf(s) == LET t == Strip(s) IN
    IF t # <<>> /\ Head(t) = "-" THEN 0 - DigitsVal(Unsigned(s))
    ELSE DigitsVal(Unsigned(s))

\* str(n) on an int.
RECURSIVE NatStr(_)
NatStr(n) ==
    IF n < 10 THEN <<DigitChars[n + 1]>>
    ELSE Append(NatStr(n \div 10), DigitChars[(n % 10) + 1])
IntStr(n) == IF n < 0 THEN <<"-">> \o NatStr(0 - n) ELSE NatStr(n)

(***************************************************************************)
(* Optional values: birth_month is None, an int, or (before conversion, or *)
(* when the field is empty) a str.                                         *)
(***************************************************************************)
None == [t |-> "None", n |-> 0, s |-> <<>>]
PyInt(n) == [t |-> "int", n |-> n, s |-> <<>>]
PyStr(s) == [t |-> "str", n |-> 0, s |-> s]
\* bool(x)
Truthy(x) ==
    \/ x.t = "int" /\ x.n # 0
    \/ x.t = "str" /\ x.s # <<>>
\* x == month for an int month
EqualsInt(x, m) == x.t = "int" /\ x.n = m

(***************************************************************************)
(* class Voter                                                             *)
(***************************************************************************)
NoVoter == [first |-> <<>>, last |-> <<>>, birth_year |-> 0, zip |-> <<>>,
            birth_month |-> None]
Raised == [ok |-> FALSE, v |-> NoVoter]

\* Lines 14-23: the fields by position; 4 or 5 of them, else ValueError.
VoterFields(entry) ==
    LET split_entry == Split(entry) IN
    IF Len(split_entry) = 4
    THEN [ok |-> TRUE, first |-> split_entry[1], last |-> split_entry[2],
          birth_month |-> None,
          birth_year |-> split_entry[3], zip |-> split_entry[4]]
    ELSE IF Len(split_entry) = 5
    THEN [ok |-> TRUE, first |-> split_entry[1], last |-> split_entry[2],
          birth_month |-> IF split_entry[3] = Unknown THEN None
                          ELSE PyStr(split_entry[3]),
          birth_year |-> split_entry[4], zip |-> split_entry[5]]
    ELSE [ok |-> FALSE, first |-> <<>>, last |-> <<>>, birth_month |-> None,
          birth_year |-> <<>>, zip |-> <<>>]

\* Voter.__init__: the object, or Raised when a ValueError leaves it
\* (a bad field count, or int() of a field that is no integer literal).
Voter(entry) ==
    LET f == VoterFields(entry) IN
    IF ~f.ok THEN Raised
    ELSE IF ~IsIntLiteral(f.birth_year) THEN Raised
    ELSE IF Truthy(f.birth_month) /\ ~IsIntLiteral(f.birth_month.s) THEN Raised
    ELSE [ok |-> TRUE,
          v |-> [first |-> f.first, last |-> f.last,
                 birth_year |-> IntOf(f.birth_year), zip |-> f.zip,
                 birth_month |-> IF Truthy(f.birth_month)
                                 THEN PyInt(IntOf(f.birth_month.s))
                                 ELSE f.birth_month]]

\* Voter.__hash__: hash() of the joined key; the model takes the hash of a
\* string to be the string (no collisions between different strings).
VoterHash(v) ==
    Join(<<v.first, v.last, IntStr(v.birth_year), v.zip>>, <<" ", "-", " ">>)

\* Voter defines no __eq__: object.__eq__ compares identity (heap indices).
VoterEq(a, b) == a = b

\* f"{x}" of a birth_month that is truthy.
MonthStr(x) == IF x.t = "int" THEN IntStr(x.n) ELSE x.s

VoterStr_SwapMonthYear(v) ==
    Join(<<v.first, v.last, IntStr(v.birth_year),
           IF Truthy(v.birth_month) THEN MonthStr(v.birth_month) ELSE Unknown,
           v.zip>>, <<Comma>>)

\* Voter.__str__
VoterStr(v) ==
    Join(<<v.first, v.last,
           IF Truthy(v.birth_month) THEN MonthStr(v.birth_month) ELSE Unknown,
           IntStr(v.birth_year), v.zip>>, <<Comma>>)


Str_false == <<"f", "a", "l", "s", "e">>

\* Voter.get_api_args
get_api_args(v, m) ==
    [FirstName |-> v.first, LastName |-> v.last, NameBirthMonth |-> m,
     NameBirthYear |-> v.birth_year, ZipCode |-> v.zip,
     Dln |-> <<>>, DlnBirthMonth |-> <<"0">>, DlnBirthYear |-> <<>>,
     DpaID |-> <<"0">>, Months |-> <<>>, VoterNotFound |-> Str_false,
     TransistionVoter |-> Str_false]

(***************************************************************************)
(* The remote service and its pages.  A page is the text of a response;    *)
(* the program reads it only through two substring tests, so a page is     *)
(* modelled by the markers it contains and a number standing for the rest  *)
(* of its text.  A response is a page (str) or None.                       *)
(***************************************************************************)
Registered == "Yes, you are registered!"
Pending == "Your clerk has not recorded receiving your AV Application."
Markers == {Registered, Pending}

NoResponse == [t |-> "None", markers |-> {}, rest |-> 0]
Page(ms, n) == [t |-> "str", markers |-> ms, rest |-> n]
\* response_page and marker in response_page
HasMarker(r, marker) == r.t = "str" /\ marker \in r.markers

\* What identifies a person to the service.
KeyOf(arg) == <<arg.FirstName, arg.LastName, arg.NameBirthYear, arg.ZipCode>>

VARIABLES
    rows,                 \* the input records (RegistrationChecker: rows)
    svc,                  \* the remote service: person -> month -> page
    pc,                   \* position of the driver
    heap,                 \* the Voter objects, by identity
    voters,               \* local voters of the search: a list of objects
    month,                \* loop variable of the search
    registered_voters,    \* set of objects
    voters_with_ballots,  \* set of objects
    arguments,            \* descriptors of the current api_multi_call
    responses,            \* what api_multi_call returned
    result,               \* the sorted list the wrapper writes
    outfile,              \* the lines written
    trip,                 \* a record re-read from its own serialisation
    tpc,                  \* per request task: its position in _api_call
    attempt_no,           \* per request task: loop variable of _api_call
    ret,                  \* per request task: its return value
    sem,                  \* value of the asyncio.Semaphore
    calls,                \* service side: POSTs received per descriptor
    failures,             \* service side: attempts failed per descriptor
    order,                \* request tasks in the order they settled
    transport_failed,     \* whether any attempt of the run failed
    rounds,               \* iterations of the search loop carried out
    batch,                \* the objects whose descriptors were last dispatched
    requested             \* every <<object, month>> dispatched so far

vars == <<rows, svc, pc, heap, voters, month, registered_voters,
          voters_with_ballots, arguments, responses, result, outfile, trip,
          tpc, attempt_no, ret, sem, calls, failures, order,
          transport_failed, rounds, batch, requested>>

driver_vars == <<heap, voters, month, registered_voters, voters_with_ballots,
                 result, outfile>>
task_vars == <<tpc, attempt_no, ret, sem, calls, failures, order>>
history_vars == <<rounds, batch, requested>>

\* The service's answer to one descriptor: the page it holds for that person
\* and month, and a page without markers when it holds none.
Respond(arg) ==
    IF arg.NameBirthMonth \in DOMAIN svc[KeyOf(arg)]
    THEN svc[KeyOf(arg)][arg.NameBirthMonth]
    ELSE Page({}, 0)

NoTrip == [done |-> FALSE, ok |-> FALSE, s1 |-> <<>>, s2 |-> <<>>]

(***************************************************************************)
(* SpecVoter: one record is parsed into a Voter, the engine may assign its *)
(* birth_month (line 97), and the Voter is written and read back.          *)
(***************************************************************************)
NamePool == {<<"a">>, <<"b">>, <<>>}
YearPool == {<<"9", "0">>, <<"-", "5">>, <<" ", "7">>, <<"x">>, <<>>}
ZipPool == {<<"z">>, <<"0", "4">>}
MonthPool == {<<"6">>, <<"1", "2">>, <<"0">>, <<"0", "6">>, <<"1", "3">>,
              Unknown, <<"x">>, <<>>}
OddPool == {<<"a">>, <<"6">>}

\* All tuples of n fields over OddPool.
RECURSIVE FieldTuples(_)
FieldTuples(n) ==
    IF n = 0 THEN {<<>>}
    ELSE {Append(t, f) : t \in FieldTuples(n - 1), f \in OddPool}

VoterRecords ==
    {Join(<<f, <<"s">>, y, z>>, <<Comma>>) :
        f \in NamePool, y \in YearPool, z \in ZipPool}
    \cup {Join(<<f, <<"s">>, m, y, <<"z">>>>, <<Comma>>) :
        f \in NamePool, m \in MonthPool, y \in YearPool}
    \cup UNION {{Join(t, <<Comma>>) : t \in FieldTuples(n)} :
                 n \in (1..MaxFields) \ {4, 5}}
    \cup {<<>>}

InitVoter ==
    /\ rows \in {<<r>> : r \in VoterRecords}
    /\ svc = <<>>
    /\ pc = "new"
    /\ heap = <<>>
    /\ voters = <<>>
    /\ month = 0
    /\ registered_voters = {}
    /\ voters_with_ballots = {}
    /\ arguments = <<>>
    /\ responses = <<>>
    /\ result = <<>>
    /\ outfile = <<>>
    /\ trip = NoTrip
    /\ tpc = <<>>
    /\ attempt_no = <<>>
    /\ ret = <<>>
    /\ sem = 0
    /\ calls = <<>>
    /\ failures = <<>>
    /\ order = <<>>
    /\ transport_failed = FALSE
    /\ rounds = 0
    /\ batch = <<>>
    /\ requested = {}

\* Voter(row): line 129 for one row.
Construct ==
    /\ pc = "new"
    /\ LET made == Voter(rows[1]) IN
       \/ /\ made.ok
          /\ heap' = <<made.v>>
          /\ pc' = "built"
       \/ /\ ~made.ok
          /\ heap' = heap
          /\ pc' = "error"
    /\ UNCHANGED <<rows, svc, voters, month, registered_voters,
                   voters_with_ballots, arguments, responses, result, outfile,
                   trip, task_vars, transport_failed, history_vars>>

\* voter.birth_month = month (line 97), for a month of the search.
AssignMonth ==
    /\ pc = "built"
    /\ \E m \in FirstMonth..LastMonth :
          heap' = [heap EXCEPT ![1].birth_month = PyInt(m)]
    /\ pc' = "assigned"
    /\ UNCHANGED <<rows, svc, voters, month, registered_voters,
                   voters_with_ballots, arguments, responses, result, outfile,
                   trip, task_vars, transport_failed, history_vars>>

\* str(v) is written (line 134), the line is parsed again as a row would be
\* (line 129), and the new Voter is written.
RoundTrip ==
    /\ pc \in {"built", "assigned"}
    /\ LET s1 == VoterStr(heap[1])
           again == Voter(s1)
       IN trip' = [done |-> TRUE, ok |-> again.ok, s1 |-> s1,
                   s2 |-> IF again.ok THEN VoterStr(again.v) ELSE <<>>]
    /\ pc' = "tripped"
    /\ UNCHANGED <<rows, svc, heap, voters, month, registered_voters,
                   voters_with_ballots, arguments, responses, result, outfile,
                   task_vars, transport_failed, history_vars>>

NextVoter == Construct \/ AssignMonth \/ RoundTrip
SpecVoter == InitVoter /\ [][NextVoter]_vars

(***************************************************************************)
(* SpecFanOut: one call of api_multi_call.  interior creates one task per  *)
(* descriptor (lines 68-70) and gathers them (line 71).  The tasks run on  *)
(* one event loop: a task runs alone from one await to the next, so each   *)
(* action below is the code between two awaits.  The awaits of _api_call   *)
(* are the semaphore (line 107), the response (line 108) and its text      *)
(* (line 109).  time.sleep (line 113) is no await: it blocks the thread,   *)
(* and with it every task of the loop, until it returns.                   *)
(***************************************************************************)
Tasks == 1..Len(arguments)

\* asyncio.Semaphore: acquire returns at once while the value is positive.
SemCanAcquire_NoGate(value) == value >= 0
SemCanAcquire(value) == value > 0
SemAcquire(value) == value - 1
\* Semaphore.release, run by the exit of "async with sem" on every path.
SemRelease_Lost(value) == value
SemRelease(value) == value + 1

\* "for attempt_no in range(5)": whether another iteration follows.
LoopContinues_OffByOne(a) == a + 1 <= MaxAttempts
LoopContinues(a) == a + 1 < MaxAttempts

\* The thread is inside time.sleep: no task can take a step.
ThreadBlocked == \E j \in Tasks : tpc[j] = "sleep"

\* asyncio.gather: the tasks' results in the order the tasks were passed.
Gathered_AsCompleted(n) == [k \in 1..n |-> ret[order[k]]]
Gathered(n) == [k \in 1..n |-> ret[k]]

\* Descriptors for a fan-out: requests for two people, month by month.
SamplePeople == <<Voter(<<"a", ",", "s", ",", "9", "0", ",", "z">>).v,
                  Voter(<<"b", ",", "j", ",", "3", ",", "8", "5", ",", "y">>).v>>
SampleDescriptor(i) ==
    get_api_args(SamplePeople[((i - 1) % 2) + 1],
                 FirstMonth + ((i - 1) % (LastMonth - FirstMonth + 1)))
PeopleKeys == {KeyOf(get_api_args(SamplePeople[i], FirstMonth)) : i \in 1..2}
\* A service whose page differs for every person and month.
EchoService ==
    [k \in PeopleKeys |->
        [m \in FirstMonth..LastMonth |->
            Page(IF m % 2 = 1 THEN {Registered} ELSE {Registered, Pending},
                 IF k[1] = <<"a">> THEN m ELSE m + LastMonth)]]

InitFanOut ==
    /\ \E n \in 0..MaxRequests : arguments = [i \in 1..n |-> SampleDescriptor(i)]
    /\ svc = EchoService
    /\ pc = "call"
    /\ rows = <<>>
    /\ heap = <<>>
    /\ voters = <<>>
    /\ month = 0
    /\ registered_voters = {}
    /\ voters_with_ballots = {}
    /\ responses = <<>>
    /\ result = <<>>
    /\ outfile = <<>>
    /\ trip = NoTrip
    /\ tpc = <<>>
    /\ attempt_no = <<>>
    /\ ret = <<>>
    /\ sem = 0
    /\ calls = <<>>
    /\ failures = <<>>
    /\ order = <<>>
    /\ transport_failed = FALSE
    /\ rounds = 0
    /\ batch = <<>>
    /\ requested = {}

\* Lines 64-70: the semaphore and one task per descriptor, none started.
CreateTasks ==
    /\ pc = "call"
    /\ sem' = SemSize
    /\ tpc' = [i \in Tasks |-> "acquire"]
    /\ attempt_no' = [i \in Tasks |-> 0]
    /\ ret' = [i \in Tasks |-> NoResponse]
    /\ calls' = [i \in Tasks |-> 0]
    /\ failures' = [i \in Tasks |-> 0]
    /\ order' = <<>>
    /\ pc' = "gather"
    /\ UNCHANGED <<rows, svc, driver_vars, arguments, responses, trip,
                   transport_failed, history_vars>>

\* Line 107-108: the task enters "async with sem" and posts its request.
Acquire(i) ==
    /\ pc = "gather"
    /\ ~ThreadBlocked
    /\ tpc[i] = "acquire"
    /\ SemCanAcquire(sem)
    /\ sem' = SemAcquire(sem)
    /\ calls' = [calls EXCEPT ![i] = @ + 1]
    /\ tpc' = [tpc EXCEPT ![i] = "post"]
    /\ UNCHANGED <<rows, svc, pc, driver_vars, arguments, responses, trip,
                   attempt_no, ret, failures, order, transport_failed,
                   history_vars>>

\* Line 108: the response arrives; the task goes on to await its text.
PostReturns(i) ==
    /\ pc = "gather"
    /\ ~ThreadBlocked
    /\ tpc[i] = "post"
    /\ tpc' = [tpc EXCEPT ![i] = "text"]
    /\ UNCHANGED <<rows, svc, pc, driver_vars, arguments, responses, trip,
                   attempt_no, ret, sem, calls, failures, order,
                   transport_failed, history_vars>>

\* An attempt whose except clause runs inside "async with sem".
AttemptRaises_HoldsSlot(i) ==
    /\ pc = "gather"
    /\ ~ThreadBlocked
    /\ tpc[i] \in {"post", "text"}
    /\ failures' = [failures EXCEPT ![i] = @ + 1]
    /\ transport_failed' = TRUE
    /\ tpc' = [tpc EXCEPT ![i] = "sleep"]
    /\ UNCHANGED <<rows, svc, pc, driver_vars, arguments, responses, trip,
                   attempt_no, ret, sem, calls, order, history_vars>>

\* Lines 108-113: an await of the attempt raises.  Leaving "async with sem"
\* releases the slot, the except clause prints and calls time.sleep.
AttemptRaises(i) ==
    /\ pc = "gather"
    /\ ~ThreadBlocked
    /\ tpc[i] \in {"post", "text"}
    /\ sem' = SemRelease(sem)
    /\ failures' = [failures EXCEPT ![i] = @ + 1]
    /\ transport_failed' = TRUE
    /\ tpc' = [tpc EXCEPT ![i] = "sleep"]
    /\ UNCHANGED <<rows, svc, pc, driver_vars, arguments, responses, trip,
                   attempt_no, ret, calls, order, history_vars>>

\* Lines 109-110: the text arrives and is returned; the slot is released.
TextReturns(i) ==
    /\ pc = "gather"
    /\ ~ThreadBlocked
    /\ tpc[i] = "text"
    /\ sem' = SemRelease(sem)
    /\ ret' = [ret EXCEPT ![i] = Respond(arguments[i])]
    /\ order' = Append(order, i)
    /\ tpc' = [tpc EXCEPT ![i] = "done"]
    /\ UNCHANGED <<rows, svc, pc, driver_vars, arguments, responses, trip,
                   attempt_no, calls, failures, transport_failed,
                   history_vars>>

\* Lines 113-116: time.sleep returns; the loop goes to its next attempt, or
\* ends and the task returns None.
SleepReturns(i) ==
    /\ pc = "gather"
    /\ tpc[i] = "sleep"
    /\ \/ /\ LoopContinues(attempt_no[i])
          /\ attempt_no' = [attempt_no EXCEPT ![i] = @ + 1]
          /\ tpc' = [tpc EXCEPT ![i] = "acquire"]
          /\ UNCHANGED <<ret, order>>
       \/ /\ ~LoopContinues(attempt_no[i])
          /\ ret' = [ret EXCEPT ![i] = NoResponse]
          /\ order' = Append(order, i)
          /\ tpc' = [tpc EXCEPT ![i] = "done"]
          /\ UNCHANGED attempt_no
    /\ UNCHANGED <<rows, svc, pc, driver_vars, arguments, responses, trip,
                   sem, calls, failures, transport_failed, history_vars>>

\* A call that returns as soon as one task is done.
GatherReturns_FirstCompleted ==
    /\ pc = "gather"
    /\ \E i \in Tasks : tpc[i] = "done"
    /\ responses' = Gathered(Len(arguments))
    /\ pc' = "returned"
    /\ UNCHANGED <<rows, svc, driver_vars, arguments, trip, task_vars,
                   transport_failed, history_vars>>

\* Lines 71-79: every task is done; gather's list is what the call returns.
GatherReturns ==
    /\ pc = "gather"
    /\ \A i \in Tasks : tpc[i] = "done"
    /\ responses' = Gathered(Len(arguments))
    /\ pc' = "returned"
    /\ UNCHANGED <<rows, svc, driver_vars, arguments, trip, task_vars,
                   transport_failed, history_vars>>

TaskStep ==
    \E i \in Tasks :
        \/ Acquire(i)
        \/ PostReturns(i)
        \/ AttemptRaises(i)
        \/ TextReturns(i)
        \/ SleepReturns(i)

NextFanOut == CreateTasks \/ TaskStep \/ GatherReturns
SpecFanOut == InitFanOut /\ [][NextFanOut]_vars

(***************************************************************************)
(* Spec: RegistrationChecker.get_voters_with_ballots.  The rows are parsed *)
(* (line 129), get_voters_with_absentee_ballots runs its loop over the     *)
(* months (lines 89-100), and the returned list is sorted and written      *)
(* (lines 132-134).  api_multi_call is a blocking call of the driver       *)
(* (run_until_complete, line 78): one iteration of the loop is one action, *)
(* and the call's result is computed by ApiMultiCall from what the         *)
(* transport does to each request.                                         *)
(***************************************************************************)

\* _api_call for one request whose first `fate` attempts fail.
RECURSIVE ApiCallFrom(_, _, _)
ApiCallFrom(arg, fate, a) ==
    IF a >= fate THEN Respond(arg)
    ELSE IF LoopContinues(a) THEN ApiCallFrom(arg, fate, a + 1)
    ELSE NoResponse
ApiCall(arg, fate) == ApiCallFrom(arg, fate, 0)

\* api_multi_call: one result per descriptor, in the descriptors' order.
ApiMultiCall(args, fates) == [i \in 1..Len(args) |-> ApiCall(args[i], fates[i])]

\* "x in s" and s.add(x) for a set of Voter objects of heap h.
SetContains(S, x, h) ==
    \E y \in S : VoterHash(h[y]) = VoterHash(h[x]) /\ VoterEq(y, x)
SetAdd(S, x, h) == IF SetContains(S, x, h) THEN S ELSE S \cup {x}

\* Line 90-91: the voters whose descriptor goes into this month's call.
Candidates(vs, h, m) ==
    SelectSeq(vs, LAMBDA v : ~Truthy(h[v].birth_month)
                             \/ EqualsInt(h[v].birth_month, m))
BuildArgs(vs, h, m) ==
    LET c == Candidates(vs, h, m) IN
    [i \in 1..Len(c) |-> get_api_args(h[c[i]], m)]

\* zip(voters, responses): pairs by position, as many as the shorter has.
ZipLen(vs, resps) == IF Len(vs) < Len(resps) THEN Len(vs) ELSE Len(resps)

\* Line 97: voter.birth_month = month, on the object of heap h.
SetBirthMonth_Skipped(h, voter, m) == h
SetBirthMonth(h, voter, m) == [h EXCEPT ![voter].birth_month = PyInt(m)]

\* Lines 93-98: the loop over zip(voters, responses), from pair k on.
RECURSIVE Classify(_, _, _, _, _)
Classify(k, vs, resps, m, st) ==
    IF k > ZipLen(vs, resps) THEN st
    ELSE LET voter == vs[k]
             response_page == resps[k]
         IN IF HasMarker(response_page, Registered)
            THEN LET reg == SetAdd(st.registered_voters, voter, st.heap) IN
                 IF ~HasMarker(response_page, Pending)
                 THEN LET h == SetBirthMonth(st.heap, voter, m)
                      IN Classify(k + 1, vs, resps, m,
                            [registered_voters |-> reg,
                             heap |-> h,
                             voters_with_ballots |->
                                 SetAdd(st.voters_with_ballots, voter, h)])
                 ELSE Classify(k + 1, vs, resps, m,
                            [st EXCEPT !.registered_voters = reg])
            ELSE Classify(k + 1, vs, resps, m, st)

\* Line 100: voters = [v for v in voters if v not in registered_voters]
StillActive_Appended(vs, reg, h) ==
    vs \o SelectSeq(vs, LAMBDA v : ~SetContains(reg, v, h))
StillActive_KeepAll(vs, reg, h) == vs
StillActive(vs, reg, h) == SelectSeq(vs, LAMBDA v : ~SetContains(reg, v, h))

\* range(1, 13): whether month m is the last one.
MonthsExhausted_Short(m) == m >= LastMonth - 1
MonthsExhausted(m) == m = LastMonth

\* list.sort(key=birth_year): a stable sort, here by insertion.
RECURSIVE InsertByYear(_, _, _)
InsertByYear(sorted, v, h) ==
    IF sorted = <<>> THEN <<v>>
    ELSE IF h[sorted[Len(sorted)]].birth_year <= h[v].birth_year
    THEN Append(sorted, v)
    ELSE Append(InsertByYear(SubSeq(sorted, 1, Len(sorted) - 1), v, h),
                sorted[Len(sorted)])
RECURSIVE SortByYearFrom(_, _, _, _)
SortByYearFrom(lst, k, acc, h) ==
    IF k > Len(lst) THEN acc
    ELSE SortByYearFrom(lst, k + 1, InsertByYear(acc, lst[k], h), h)
SortByYear_Unsorted(lst, h) == lst
SortByYear(lst, h) == SortByYearFrom(lst, 1, <<>>, h)

\* list(s) for a set: its elements in an order the program does not control.
ListsOf(S) ==
    {f \in [1..Cardinality(S) -> S] : \A i, j \in DOMAIN f : f[i] = f[j] => i = j}

\* The rows of the search: two people, a person known by month, a bad row.
AliceRow == <<"a", ",", "s", ",", "9", "0", ",", "z">>
AliceMarchRow == <<"a", ",", "s", ",", "3", ",", "9", "0", ",", "z">>
BobMarchRow == <<"b", ",", "j", ",", "3", ",", "8", "5", ",", "y">>
ShortRow == <<"a", ",", "s">>
SearchRows == {AliceRow, AliceMarchRow, BobMarchRow, ShortRow}
RowLists == UNION {[1..n -> SearchRows] : n \in 0..MaxVoters}

\* The services of the search: deterministic, and at the months below each
\* person's page is any of: no match, registered, registered and pending.
AliceKey == KeyOf(get_api_args(Voter(AliceRow).v, FirstMonth))
BobKey == KeyOf(get_api_args(Voter(BobMarchRow).v, FirstMonth))
NotFound == Page({}, 0)
PageKinds == {NotFound, Page({Registered}, 0), Page({Registered, Pending}, 0)}
AliceMonths == {1, 12}
BobMonths == {3}
ServicesOf(months) == [months -> PageKinds]
Services ==
    {[k \in {AliceKey, BobKey} |-> IF k = AliceKey THEN a ELSE b] :
        a \in ServicesOf(AliceMonths), b \in ServicesOf(BobMonths)}

\* What the transport does to one request: the number of its attempts that
\* fail before one succeeds.  Either none fails or all of them fail.
Fates == {0, MaxAttempts}

Init ==
    /\ rows \in RowLists
    /\ svc \in Services
    /\ pc = "start"
    /\ heap = <<>>
    /\ voters = <<>>
    /\ month = 0
    /\ registered_voters = {}
    /\ voters_with_ballots = {}
    /\ arguments = <<>>
    /\ responses = <<>>
    /\ result = <<>>
    /\ outfile = <<>>
    /\ trip = NoTrip
    /\ tpc = <<>>
    /\ attempt_no = <<>>
    /\ ret = <<>>
    /\ sem = 0
    /\ calls = <<>>
    /\ failures = <<>>
    /\ order = <<>>
    /\ transport_failed = FALSE
    /\ rounds = 0
    /\ batch = <<>>
    /\ requested = {}

\* Lines 129-131 and 86-89: every row is parsed (a ValueError ends the run),
\* the search is entered and its loop is at its first month.
Start ==
    /\ pc = "start"
    /\ \/ /\ \A i \in 1..Len(rows) : Voter(rows[i]).ok
          /\ heap' = [i \in 1..Len(rows) |-> Voter(rows[i]).v]
          /\ voters' = [i \in 1..Len(rows) |-> i]
          /\ month' = FirstMonth
          /\ pc' = "search"
       \/ /\ \E i \in 1..Len(rows) : ~Voter(rows[i]).ok
          /\ pc' = "error"
          /\ UNCHANGED <<heap, voters, month>>
    /\ UNCHANGED <<rows, svc, registered_voters, voters_with_ballots,
                   arguments, responses, result, outfile, trip, task_vars,
                   transport_failed, history_vars>>

\* Lines 89-100: one iteration of the loop, for the current month.
Round ==
    /\ pc = "search"
    /\ LET sent == Candidates(voters, heap, month)
           args == BuildArgs(voters, heap, month)
       IN \E fates \in [1..Len(args) -> Fates] :
          LET resps == ApiMultiCall(args, fates)
              st == Classify(1, voters, resps, month,
                        [registered_voters |-> registered_voters,
                         heap |-> heap,
                         voters_with_ballots |-> voters_with_ballots])
          IN /\ arguments' = args
             /\ responses' = resps
             /\ registered_voters' = st.registered_voters
             /\ voters_with_ballots' = st.voters_with_ballots
             /\ heap' = st.heap
             /\ voters' = StillActive(voters, st.registered_voters, st.heap)
             /\ transport_failed' =
                    (transport_failed \/ \E i \in 1..Len(args) : fates[i] > 0)
             /\ batch' = sent
             /\ requested' = requested \cup
                    {<<sent[i], month>> : i \in 1..Len(sent)}
    /\ rounds' = rounds + 1
    /\ \/ /\ MonthsExhausted(month)
          /\ pc' = "sort"
          /\ month' = month
       \/ /\ ~MonthsExhausted(month)
          /\ pc' = "search"
          /\ month' = month + 1
    /\ UNCHANGED <<rows, svc, result, outfile, trip, task_vars>>

\* Lines 101 and 132-134: the set becomes a list, the list is sorted by
\* birth_year and each Voter is written as its str().
WriteOut ==
    /\ pc = "sort"
    /\ \E lst \in ListsOf(voters_with_ballots) :
          result' = SortByYear(lst, heap)
    /\ outfile' = [k \in 1..Len(result') |-> VoterStr(heap[result'[k]])]
    /\ pc' = "done"
    /\ UNCHANGED <<rows, svc, heap, voters, month, registered_voters,
                   voters_with_ballots, arguments, responses, trip, task_vars,
                   transport_failed, history_vars>>

Next == Start \/ Round \/ WriteOut
Spec == Init /\ [][Next]_vars

(***************************************************************************)
(* SpecShifted: the same run on inputs one entry longer than those of      *)
(* Spec, drawn from rows such that an entry left out of a month's call     *)
(* (line 90-91) can stand before two entries that are in it.               *)
(***************************************************************************)
BobRow == <<"b", ",", "j", ",", "8", "5", ",", "y">>
ShiftedRows == {AliceMarchRow, BobRow, AliceRow, ShortRow}
ShiftedRowLists == [1..MaxVoters + 1 -> ShiftedRows]

InitShifted ==
    /\ rows \in ShiftedRowLists
    /\ svc \in Services
    /\ pc = "start"
    /\ heap = <<>>
    /\ voters = <<>>
    /\ month = 0
    /\ registered_voters = {}
    /\ voters_with_ballots = {}
    /\ arguments = <<>>
    /\ responses = <<>>
    /\ result = <<>>
    /\ outfile = <<>>
    /\ trip = NoTrip
    /\ tpc = <<>>
    /\ attempt_no = <<>>
    /\ ret = <<>>
    /\ sem = 0
    /\ calls = <<>>
    /\ failures = <<>>
    /\ order = <<>>
    /\ transport_failed = FALSE
    /\ rounds = 0
    /\ batch = <<>>
    /\ requested = {}

SpecShifted == InitShifted /\ [][Next]_vars

(***************************************************************************)
(* SpecRounds: the same run with api_multi_call not taken as one step.     *)
(* An iteration of the loop builds its descriptors and calls               *)
(* api_multi_call (lines 90-92); the call creates its tasks, the tasks     *)
(* take their steps and run_until_complete returns gather's list (the      *)
(* actions of SpecFanOut); the driver then classifies the responses and    *)
(* filters the working list (lines 93-100).                                *)
(***************************************************************************)
RoundsRowLists ==
    {<<AliceRow, BobMarchRow>>, <<AliceMarchRow, AliceRow>>, <<ShortRow>>}

InitRounds ==
    /\ rows \in RoundsRowLists
    /\ svc \in Services
    /\ pc = "start"
    /\ heap = <<>>
    /\ voters = <<>>
    /\ month = 0
    /\ registered_voters = {}
    /\ voters_with_ballots = {}
    /\ arguments = <<>>
    /\ responses = <<>>
    /\ result = <<>>
    /\ outfile = <<>>
    /\ trip = NoTrip
    /\ tpc = <<>>
    /\ attempt_no = <<>>
    /\ ret = <<>>
    /\ sem = 0
    /\ calls = <<>>
    /\ failures = <<>>
    /\ order = <<>>
    /\ transport_failed = FALSE
    /\ rounds = 0
    /\ batch = <<>>
    /\ requested = {}

\* Lines 90-92: the descriptors of the month are built and api_multi_call
\* is entered.
RoundCall ==
    /\ pc = "search"
    /\ LET sent == Candidates(voters, heap, month) IN
          /\ arguments' = BuildArgs(voters, heap, month)
          /\ batch' = sent
          /\ requested' = requested \cup
                 {<<sent[i], month>> : i \in 1..Len(sent)}
    /\ pc' = "call"
    /\ UNCHANGED <<rows, svc, driver_vars, responses, trip, task_vars,
                   transport_failed, rounds>>

\* Lines 93-100: api_multi_call has returned; the responses are classified,
\* the working list is filtered and the loop goes to its next month.
RoundReturn ==
    /\ pc = "returned"
    /\ LET st == Classify(1, voters, responses, month,
                     [registered_voters |-> registered_voters,
                      heap |-> heap,
                      voters_with_ballots |-> voters_with_ballots])
       IN /\ registered_voters' = st.registered_voters
          /\ voters_with_ballots' = st.voters_with_ballots
          /\ heap' = st.heap
          /\ voters' = StillActive(voters, st.registered_voters, st.heap)
    /\ rounds' = rounds + 1
    /\ \/ /\ MonthsExhausted(month)
          /\ pc' = "sort"
          /\ month' = month
       \/ /\ ~MonthsExhausted(month)
          /\ pc' = "search"
          /\ month' = month + 1
    /\ UNCHANGED <<rows, svc, arguments, responses, result, outfile, trip,
                   task_vars, transport_failed, batch, requested>>

NextRounds ==
    \/ Start
    \/ RoundCall
    \/ CreateTasks
    \/ TaskStep
    \/ GatherReturns
    \/ RoundReturn
    \/ WriteOut
SpecRounds == InitRounds /\ [][NextRounds]_vars

(***************************************************************************)
(* The claims.                                                             *)
(***************************************************************************)
Min(S) == CHOOSE x \in S : \A y \in S : x <= y
Range(f) == {f[i] : i \in DOMAIN f}

\* The months at which input row i is eligible, and the first of them at
\* which the service answers that row's own request with the registered
\* marker.
EligibleMonths(i) ==
    LET e == Voter(rows[i]).v IN
    IF e.birth_month = None THEN FirstMonth..LastMonth
    ELSE {m \in FirstMonth..LastMonth : EqualsInt(e.birth_month, m)}
OwnPage(i, m) == Respond(get_api_args(Voter(rows[i]).v, m))
MatchMonths(i) ==
    {m \in EligibleMonths(i) : HasMarker(OwnPage(i, m), Registered)}
ExpectedTargetGroup ==
    {i \in 1..Len(rows) :
        /\ MatchMonths(i) # {}
        /\ ~HasMarker(OwnPage(i, Min(MatchMonths(i))), Pending)}

\* C1: with no transport failure, the target group the search returns is
\* exactly the set of input entries whose own response, at the first eligible
\* month at which it carries the registered marker, lacks the pending marker.
C1_TargetGroupIsExact ==
    (pc \in {"sort", "done"} /\ ~transport_failed)
        => voters_with_ballots = ExpectedTargetGroup

\* C2: the list api_multi_call returns has one result per descriptor, and
\* result i is the outcome of descriptor i: None exactly when descriptor i
\* failed all 5 attempts, and otherwise the service's page for descriptor i.
C2_ResultsAligned ==
    pc = "returned" =>
        /\ Len(responses) = Len(arguments)
        /\ \A i \in 1..Len(arguments) :
              responses[i] = IF failures[i] = 5 THEN NoResponse
                             ELSE Respond(arguments[i])

\* C2 witness: three descriptors, the second exhausted its retries and the
\* others succeeded, and the tasks did not settle in the descriptors' order.
C2_Witness ==
    /\ pc = "returned"
    /\ Len(arguments) = 3
    /\ responses[2] = NoResponse
    /\ responses[1] = Respond(arguments[1])
    /\ responses[3] = Respond(arguments[3])
    /\ order = <<3, 1, 2>>

\* C3: no request makes more than 5 attempts; a request that returned None
\* made exactly 5, all failed; a request that returned a page made exactly
\* k attempts, the first k - 1 of which failed, and none after it returned.
C3_RetryCount ==
    pc \in {"gather", "returned"} =>
        \A i \in Tasks :
            /\ calls[i] <= 5
            /\ tpc[i] = "done" =>
                  IF ret[i] = NoResponse
                  THEN calls[i] = 5 /\ failures[i] = 5
                  ELSE /\ failures[i] < 5
                       /\ calls[i] = failures[i] + 1
                       /\ ret[i] = Respond(arguments[i])

\* C3 witness: of the settled requests one exhausted its 5 attempts and one
\* succeeded at its third.
C3_Witness ==
    /\ pc = "returned"
    /\ \E i \in Tasks : ret[i] = NoResponse /\ calls[i] = 5
    /\ \E i \in Tasks : ret[i] # NoResponse /\ calls[i] = 3

\* The requests holding a gate slot: between acquiring it and the response
\* or the failure of the attempt.
InFlight == {i \in Tasks : tpc[i] \in {"post", "text"}}

\* C4: at most C requests are in flight at any time, C the size of the gate.
C4_InFlightBounded ==
    pc \in {"gather", "returned"} => Cardinality(InFlight) <= SemSize

\* C4 witness: more descriptors than slots, the gate is full and a request
\* waits for a slot.
C4_Witness ==
    /\ pc = "gather"
    /\ Len(arguments) > SemSize
    /\ Cardinality(InFlight) = SemSize
    /\ \E i \in Tasks : tpc[i] = "acquire" /\ attempt_no[i] = 0

\* C5: the gate counter stays within 0..C, and when every task of the
\* fan-out has settled all C slots are free.
C5_NoSlotLeaked ==
    pc \in {"gather", "returned"} =>
        /\ sem \in 0..SemSize
        /\ (\A i \in Tasks : tpc[i] = "done") => sem = SemSize

\* C5 witness: all settled after every exit path was taken: a success, a
\* failed attempt that was retried, and a final failed attempt.
C5_Witness ==
    /\ pc = "returned"
    /\ \E i \in Tasks : ret[i] = NoResponse
    /\ \E i \in Tasks : ret[i] # NoResponse /\ failures[i] > 0
    /\ \E i \in Tasks : ret[i] # NoResponse /\ failures[i] = 0

\* C6 as claimed: the loop ends once the active set is empty, so once the
\* entries of a non-empty input have all left the active set no further
\* iteration is carried out.
C6_EndsOnceActiveEmpty ==
    [][(voters = <<>> /\ Len(rows) > 0) => rounds' = rounds]_vars

\* C6 as amended: the loop carries out exactly 12 iterations whatever the
\* active set is: never more than 12, the iteration for month m is the
\* m-th, and the loop is left only after the 12th.
C6_TwelveRounds ==
    /\ rounds <= 12
    /\ pc = "search" => (rounds < 12 /\ month = rounds + 1)
    /\ pc \in {"sort", "done"} => rounds = 12

\* C6 witness: the loop has finished, after 12 iterations, for an input
\* whose entries were requested and have all left the active set.
C6_Witness ==
    /\ pc = "sort"
    /\ rounds = 12
    /\ voters = <<>>
    /\ Len(rows) > 0
    /\ requested # {}

\* C7: an iteration of the search never grows the active working set: the
\* list after it is no longer than before and holds only entries it held.
C7_ActiveShrinks ==
    [][pc = "search" =>
          /\ Len(voters') <= Len(voters)
          /\ Range(voters') \subseteq Range(voters)]_vars

\* C7 witness: the active set has shrunk, and not to nothing.
C7_Witness ==
    /\ pc = "search"
    /\ voters # <<>>
    /\ Len(voters) < Len(rows)

\* Whether two entries agree on first, last, birthYear and zip.
SameKey(a, b) ==
    /\ a.first = b.first
    /\ a.last = b.last
    /\ a.birth_year = b.birth_year
    /\ a.zip = b.zip

\* C8: two entries are equal and hash identically exactly when first, last,
\* birthYear and zip agree, and then one is a member of the registered set
\* when the other is.
C8_IdentityByKey ==
    \A i, j \in 1..Len(heap) :
        /\ (VoterEq(i, j) /\ VoterHash(heap[i]) = VoterHash(heap[j]))
               <=> SameKey(heap[i], heap[j])
        /\ SameKey(heap[i], heap[j]) =>
               (SetContains(registered_voters, i, heap)
                    <=> SetContains(registered_voters, j, heap))

\* C9: construction succeeds only for 4 or 5 fields and fails for any other
\* count; with 4 fields birthMonth is absent; with 5 it is the integer value
\* of the third field, or absent when that field is "Unknown".
C9_Construction ==
    LET fields == Split(rows[1]) IN
    /\ pc = "built" => Len(fields) \in {4, 5}
    /\ (pc \in {"built", "error"} /\ Len(fields) \notin {4, 5}) => pc = "error"
    /\ (pc = "built" /\ Len(fields) = 4) => heap[1].birth_month = None
    /\ (pc = "built" /\ Len(fields) = 5) =>
          heap[1].birth_month = IF fields[3] = Unknown THEN None
                                ELSE PyInt(IntOf(fields[3]))

\* C10: str() gives 5 fields, first, last, month, birthYear, zip, with
\* "Unknown" for an absent month; and for an entry whose month is resolved
\* (1..12), parsing its str() and taking str() again gives the same string.
C10_RoundTrip ==
    trip.done =>
        LET v == heap[1]
            fields == Split(trip.s1)
        IN /\ Len(fields) = 5
           /\ fields[1] = v.first
           /\ fields[2] = v.last
           /\ fields[4] = IntStr(v.birth_year)
           /\ fields[5] = v.zip
           /\ v.birth_month = None => fields[3] = Unknown
           /\ (v.birth_month.t = "int" /\ v.birth_month.n \in 1..12) =>
                 /\ fields[3] = IntStr(v.birth_month.n)
                 /\ trip.ok
                 /\ trip.s2 = trip.s1

\* C10 witness: an entry built without a month, resolved to December by the
\* engine, written and read back.
C10_Witness ==
    /\ trip.done
    /\ trip.ok
    /\ Len(Split(rows[1])) = 4
    /\ heap[1].birth_month = PyInt(12)

\* C11: the list the run returns holds exactly the entries of the target
\* group, each once, in ascending order of birth_year.
C11_SortedByYear ==
    pc = "done" =>
        /\ Range(result) = voters_with_ballots
        /\ Len(result) = Cardinality(voters_with_ballots)
        /\ \A i, j \in 1..Len(result) :
              i < j => heap[result[i]].birth_year <= heap[result[j]].birth_year

\* C11 witness: two entries of different birth years are returned, the one
\* that came later in the input first.
C11_Witness ==
    /\ pc = "done"
    /\ Len(result) = 2
    /\ result[1] > result[2]
    /\ heap[result[1]].birth_year < heap[result[2]].birth_year

\* C12: every entry of the target group carries, from the step that added it
\* on, an integer birth_month in 1..12, and every record written has that
\* month, never "Unknown", as its third field.
C12_TargetGroupResolved ==
    /\ \A v \in voters_with_ballots :
          /\ heap[v].birth_month.t = "int"
          /\ heap[v].birth_month.n \in 1..12
    /\ pc = "done" =>
          \A k \in 1..Len(outfile) :
              /\ Split(outfile[k])[3] # Unknown
              /\ Split(outfile[k])[3] = IntStr(heap[result[k]].birth_month.n)

\* C12 witness: an entry read without a month was added to the target group
\* in December and has been written.
C12_Witness ==
    /\ pc = "done"
    /\ \E k \in 1..Len(outfile) :
          /\ Len(Split(rows[result[k]])) = 4
          /\ Split(outfile[k])[3] = <<"1", "2">>

\* The positions of the batch just dispatched at which object v's own
\* request stood.
BatchPositions(v) == {i \in 1..Len(batch') : batch'[i] = v}

\* C13: in every iteration a response is classified against the entry whose
\* request it answers: an entry enters the registered set only when it was
\* in the batch and the response at its batch position carries the
\* registered marker, and enters the target group only when that response
\* also lacks the pending marker.
C13_ResponseToOwnRequest ==
    [][pc = "search" =>
          /\ \A v \in registered_voters' \ registered_voters :
                \E i \in BatchPositions(v) :
                    HasMarker(responses'[i], Registered)
          /\ \A v \in voters_with_ballots' \ voters_with_ballots :
                \E i \in BatchPositions(v) :
                    /\ HasMarker(responses'[i], Registered)
                    /\ ~HasMarker(responses'[i], Pending)]_vars

\* C14: an entry added to the registered set in the iteration for a month
\* has that month as its birth_month after the same iteration, whether or
\* not its page carries the pending marker, and keeps it afterwards.
C14_RegisteredGetsMonth ==
    [][pc = "search" =>
          /\ \A v \in registered_voters' \ registered_voters :
                heap'[v].birth_month = PyInt(month)
          /\ \A v \in registered_voters :
                heap'[v].birth_month = heap[v].birth_month]_vars

\* C15: a birth_month that is not None, whether read from the row or
\* assigned by the search, is never changed to a different value.
C15_MonthWrittenOnce ==
    [][\A v \in 1..Len(heap) :
          heap[v].birth_month # None =>
              heap'[v].birth_month = heap[v].birth_month]_vars

\* C16: after every iteration no entry of the registered set is left in the
\* working list, and the batch of an iteration holds no entry that was in
\* the registered set when the iteration began.
C16_ResolvedNotRequested ==
    [][pc = "search" =>
          /\ Range(voters') \cap registered_voters' = {}
          /\ Range(batch') \cap registered_voters = {}]_vars

\* C16 witness: an entry read without a month was requested and is in the
\* registered set, and a later iteration dispatched a batch without it.
C16_Witness ==
    \E v \in registered_voters :
        /\ Len(Split(rows[v])) = 4
        /\ \E m \in 1..12 : <<v, m>> \in requested /\ m + 1 < month
        /\ batch # <<>>
        /\ v \notin Range(batch)

\* C17: the batch of the iteration for a month holds exactly the entries of
\* the working list whose birth_month is None or that month; an entry read
\* with a month is requested in the iteration for that month only; and an
\* entry of the batch whose own response is None or lacks the registered
\* marker is still in the working list after the iteration.
C17_BatchAndRetry ==
    [][pc = "search" =>
          /\ \A v \in 1..Len(heap) :
                v \in Range(batch') <=>
                    /\ v \in Range(voters)
                    /\ \/ heap[v].birth_month = None
                       \/ heap[v].birth_month = PyInt(month)
          /\ \A v \in Range(batch') :
                Voter(rows[v]).v.birth_month \in {None, PyInt(month)}
          /\ \A i \in 1..Len(batch') :
                ~HasMarker(responses'[i], Registered)
                    => batch'[i] \in Range(voters')]_vars

\* The request tasks that exist and have not returned.
Unsettled == {i \in DOMAIN tpc : tpc[i] # "done"}

\* C18: the iterations are strictly sequential.  While a request task has
\* not returned, the working list, the registered set, the target group and
\* the objects are not written, the loop does not advance and no task is
\* created; and whenever the tasks of the iteration for a month are created,
\* run or are collected, the driver has completed the iterations of all the
\* months before it and no other.
C18_RoundsSequential ==
    [][/\ Unsettled # {} =>
             /\ UNCHANGED <<voters, registered_voters, voters_with_ballots,
                            heap>>
             /\ rounds' = rounds
             /\ month' = month
             /\ arguments' = arguments
             /\ DOMAIN tpc' = DOMAIN tpc
       /\ pc' \in {"call", "gather", "returned"} => rounds' = month' - 1]_vars

\* C18 witness: in the iteration for a later month a request task is under
\* way, after the driver put an entry in the registered set from the
\* results of an earlier month.
C18_Witness ==
    /\ pc = "gather"
    /\ rounds >= 1
    /\ registered_voters # {}
    /\ voters # <<>>
    /\ \E i \in Unsettled : tpc[i] \in {"post", "text", "sleep"}

\* C19: a task in its retry delay holds no slot of the gate.  The slots
\* taken are exactly those of the tasks inside an attempt; a task in its
\* delay has had each slot it acquired released by the failure of that
\* attempt; and a task inside its attempt number a acquired a slot for it,
\* its (a + 1)-th.
C19_NoSlotWhileDelaying ==
    pc \in {"gather", "returned"} =>
        /\ sem = SemSize - Cardinality(InFlight)
        /\ \A i \in Tasks :
              /\ tpc[i] = "sleep" => calls[i] = failures[i]
              /\ tpc[i] \in {"post", "text"} =>
                    /\ calls[i] = attempt_no[i] + 1
                    /\ failures[i] = attempt_no[i]

\* C19 witness: a task is in the delay after its second failed attempt, for
\* which it had acquired a slot again, while a slot is free and another
\* task has yet to acquire one.
C19_Witness ==
    /\ pc = "gather"
    /\ Len(arguments) > SemSize
    /\ sem > 0
    /\ \E i, j \in Tasks :
          /\ tpc[i] = "sleep"
          /\ attempt_no[i] = 1
          /\ calls[i] = 2
          /\ tpc[j] = "acquire"
          /\ calls[j] = 0

\* C20: the retry delay of a request suspends that request only: while a
\* task is in its delay, any other task of the call can take its next step,
\* whether that is to acquire a free slot, to receive the response to its
\* post or to receive the text and return.
C20_DelaySuspendsOnlyItself ==
    pc = "gather" =>
        \A i, j \in Tasks :
            (i # j /\ tpc[i] = "sleep") =>
                /\ (tpc[j] = "acquire" /\ sem > 0) => ENABLED Acquire(j)
                /\ tpc[j] = "post" => ENABLED PostReturns(j)
                /\ tpc[j] = "text" => ENABLED TextReturns(j)

=============================================================================
